---- MODULE Spec2Model ----
(***************************************************************************)
(* Model of itslivetools.mosaic: get_tiles (catalog construction and the   *)
(* bounding-box query) and download_tile (tile reference resolution, year  *)
(* sanitisation, year filter).                                             *)
(*                                                                         *)
(* Python strings are sequences of one-character strings, so that the      *)
(* regular expressions, int() and str.lower() are computed on characters.  *)
(* The alphabet holds no whitespace and no newline.                        *)
(***************************************************************************)
EXTENDS Integers, Sequences, FiniteSets

\* ------------------------------------------------------------------ bounds

\* Longest storage-location column of a manifest.
MaxTiles == 3
\* Longest auxiliary (metadata) column of a manifest.
MaxAuxLen == 2
\* Most rows of a catalog passed to download_tile as the tile reference.
MaxRows == 2
\* Longest list or tuple passed as `year`.
MaxYearSeq == 3

\* ------------------------------------------------------------ small helpers

Min(S) == CHOOSE m \in S : \A n \in S : m <= n

SeqsUpTo(S, n) == UNION { [1..k -> S] : k \in 0..n }

Range(s) == { s[i] : i \in 1..Len(s) }

\* ------------------------------------------------------- module constants

\* VALID_LOCATIONS: region -> archive identifier.
VALID_LOCATIONS_mutant ==
    [k \in { <<"g","r","e","e","n","l","a","n","d">> } |-> "RGI05A"]

VALID_LOCATIONS ==
    [k \in { <<"g","r","e","e","n","l","a","n","d">>,
             <<"a","n","t","a","r","c","t","i","c","a">> } |->
        IF k = <<"g","r","e","e","n","l","a","n","d">> THEN "RGI05A" ELSE "RGI19A"]

\* LOCATION_EPSG: region -> expected reference-system code.
LOCATION_EPSG_mutant ==
    [k \in { <<"g","r","e","e","n","l","a","n","d">>,
             <<"a","n","t","a","r","c","t","i","c","a">> } |-> 3413]

LOCATION_EPSG ==
    [k \in { <<"g","r","e","e","n","l","a","n","d">>,
             <<"a","n","t","a","r","c","t","i","c","a">> } |->
        IF k = <<"g","r","e","e","n","l","a","n","d">> THEN 3413 ELSE 3031]

\* r = 50000: half the 100 km side of a cube.
r == 50000

\* ------------------------------------------------------------- str.lower()

UpperToLower ==
    [c \in {"A","C","D","E","G","I","K","L","N","R","S","T"} |->
        CASE c = "A" -> "a" [] c = "C" -> "c" [] c = "D" -> "d" [] c = "E" -> "e"
          [] c = "G" -> "g" [] c = "I" -> "i" [] c = "K" -> "k" [] c = "L" -> "l"
          [] c = "N" -> "n" [] c = "R" -> "r" [] c = "S" -> "s" [] c = "T" -> "t"]

\* region.lower(): every upper-case letter replaced by its lower-case one.
Lower(s) ==
    [i \in 1..Len(s) |-> IF s[i] \in DOMAIN UpperToLower THEN UpperToLower[s[i]] ELSE s[i]]

\* ------------------------------------------------------------ re.findall

\* A lookahead (?=pat) at position j: the characters from j on match pat,
\* where an unescaped "." of the pattern matches any character.
LookaheadMatches(s, j, pat) ==
    /\ j + Len(pat) - 1 <= Len(s)
    /\ \A k \in 1..Len(pat) : pat[k] = "." \/ s[j + k - 1] = pat[k]

\* re.findall(r"(?<=marker)(.*?)(?=pat)", s) cut to its first element:
\* <<>> when nothing matches, else << first capture >>.  The first match
\* starts right after the leftmost marker that has a lookahead position at or
\* after it, and the lazy group ends at the nearest such position.
FirstMatch(s, marker, pat) ==
    LET ends(i) == { j \in i..Len(s) : LookaheadMatches(s, j, pat) }
        starts == { i \in (Len(marker) + 1)..(Len(s) + 1) :
                      /\ SubSeq(s, i - Len(marker), i - 1) = marker
                      /\ ends(i) # {} }
    IN  IF starts = {} THEN <<>>
        ELSE LET i == Min(starts)
                 j == Min(ends(i))
             IN  << SubSeq(s, i, j - 1) >>

\* x_pattern = r"(?<=_X)(.*?)(?=_)"
x_matches(string) == FirstMatch(string, <<"_","X">>, <<"_">>)

\* y_pattern = r"(?<=_Y)(.*?)(?=.zarr)"
y_matches_mutant(string) == FirstMatch(string, <<"_","Y">>, <<"_">>)

y_matches(string) == FirstMatch(string, <<"_","Y">>, <<".","z","a","r","r">>)

\* epsg_pattern = r"(?<=_EPSG)(.*?)(?=_)"
epsg_matches(string) == FirstMatch(string, <<"_","E","P","S","G">>, <<"_">>)

\* ------------------------------------------------------------------ int()

DigitVal ==
    [c \in {"0","1","2","3","4","5","6","7","8","9"} |->
        CASE c = "0" -> 0 [] c = "1" -> 1 [] c = "2" -> 2 [] c = "3" -> 3
          [] c = "4" -> 4 [] c = "5" -> 5 [] c = "6" -> 6 [] c = "7" -> 7
          [] c = "8" -> 8 [] c = "9" -> 9]

\* The text after an optional sign.
Unsigned(t) == IF t # <<>> /\ t[1] \in {"+", "-"} THEN Tail(t) ELSE t

\* Whether int(t) succeeds: an optional sign, then digits, single underscores
\* allowed between digits.
IsIntLiteral(t) ==
    LET u == Unsigned(t)
    IN  /\ u # <<>>
        /\ u[1] \in DOMAIN DigitVal
        /\ u[Len(u)] \in DOMAIN DigitVal
        /\ \A i \in 1..Len(u) : u[i] \in DOMAIN DigitVal \/ u[i] = "_"
        /\ \A i \in 1..(Len(u) - 1) : ~(u[i] = "_" /\ u[i + 1] = "_")

RECURSIVE DigitsValue(_, _)
DigitsValue(u, acc) ==
    IF u = <<>> THEN acc
    ELSE IF u[1] = "_" THEN DigitsValue(Tail(u), acc)
    ELSE DigitsValue(Tail(u), 10 * acc + DigitVal[u[1]])

\* int(t) for a text with IsIntLiteral(t).
IntValue(t) ==
    IF t[1] = "-" THEN 0 - DigitsValue(Unsigned(t), 0) ELSE DigitsValue(Unsigned(t), 0)

\* ------------------------------------------------- footprint derivation

\* shapely box(minx, miny, maxx, maxy): the axis-aligned rectangle.
box(minx, miny, maxx, maxy) ==
    [minx |-> minx, miny |-> miny, maxx |-> maxx, maxy |-> maxy]

\* One pass of the loop body of get_tiles over a storage-location string:
\* the three findall calls, the try block and the box.  ok = FALSE is the
\* ValueError "Failed to find X/Y coordinates or EPSG".
Derive(string) ==
    LET xm == x_matches(string)
        ym == y_matches(string)
        em == epsg_matches(string)
    IN  IF /\ xm # <<>> /\ ym # <<>> /\ em # <<>>
           /\ IsIntLiteral(xm[1]) /\ IsIntLiteral(ym[1]) /\ IsIntLiteral(em[1])
        THEN LET x == IntValue(xm[1])
                 y == IntValue(ym[1])
             IN  [ok |-> TRUE, geom |-> box(x - r, y - r, x + r, y + r),
                  epsg |-> IntValue(em[1])]
        ELSE [ok |-> FALSE, geom |-> box(0, 0, 0, 0), epsg |-> 0]

\* ----------------------------------------------------- manifest sanitisation

\* The loop "for key in cube_json.keys()" from column i on.  A manifest is the
\* sequence of its columns in document order (json.load keeps it); length is
\* -1 for None.  "if not length" is true of None and of 0.
RECURSIVE SanitizeLoop(_, _, _, _)
SanitizeLoop(cube_json, i, length, cube_dict) ==
    IF i > Len(cube_json) THEN cube_dict
    ELSE LET n == Len(cube_json[i].vals)
             length1 == IF length = -1 \/ length = 0 THEN n ELSE length
         IN  IF n = length1
             THEN SanitizeLoop(cube_json, i + 1, length1, Append(cube_dict, cube_json[i]))
             ELSE SanitizeLoop(cube_json, i + 1, length1, cube_dict)

Sanitize(cube_json) == SanitizeLoop(cube_json, 1, -1, <<>>)

\* cube_dict[key]: the positions of the column named key (at most one).
ColumnsNamed(cube_dict, key) == { i \in 1..Len(cube_dict) : cube_dict[i].key = key }

\* The loop "for string in cube_dict['composites_s3']" from entry i on, with
\* the lists built so far; it stops at the first string that fails.
RECURSIVE DeriveLoop(_, _, _, _)
DeriveLoop(strings, i, geometries, epsg_list) ==
    IF i > Len(strings)
    THEN [ok |-> TRUE, geometries |-> geometries, epsg_list |-> epsg_list]
    ELSE LET d == Derive(strings[i])
         IN  IF d.ok
             THEN DeriveLoop(strings, i + 1, Append(geometries, d.geom),
                             Append(epsg_list, d.epsg))
             ELSE [ok |-> FALSE, geometries |-> geometries, epsg_list |-> epsg_list]

\* list(set(epsg_list)): the distinct codes, each once.  The order of a
\* Python set is not specified, so every ordering is a possible result.
SetToList(S) == { s \in [1..Cardinality(S) -> S] : Range(s) = S }

\* "Ensure individual list", given the list of distinct codes: it must hold
\* one code, and that code must be the region's.
EpsgOutcome_mutant(distinct, expected) ==
    IF expected \in Range(distinct)
    THEN [error |-> "none", epsg |-> expected]
    ELSE IF Len(distinct) # 1
    THEN [error |-> "ValueError: All cubes must have same EPSG", epsg |-> 0]
    ELSE [error |-> "ValueError: Reported EPSG code does not match", epsg |-> distinct[1]]

EpsgOutcome(distinct, expected) ==
    IF Len(distinct) # 1
    THEN [error |-> "ValueError: All cubes must have same EPSG", epsg |-> 0]
    ELSE IF distinct[1] # expected
    THEN [error |-> "ValueError: Reported EPSG code does not match", epsg |-> distinct[1]]
    ELSE [error |-> "none", epsg |-> distinct[1]]

\* ------------------------------------------------------------ spatial query

\* shapely intersects of two rectangles: they share at least one point,
\* a shared boundary point included.
Intersects_mutant(a, b) ==
    /\ a.minx < b.maxx /\ b.minx < a.maxx
    /\ a.miny < b.maxy /\ b.miny < a.maxy

Intersects(a, b) ==
    ~(\/ a.maxx < b.minx \/ b.maxx < a.minx
      \/ a.maxy < b.miny \/ b.maxy < a.miny)

RECURSIVE Reverse(_)
Reverse(s) == IF s = <<>> THEN <<>> ELSE Append(Reverse(Tail(s)), Head(s))

\* gdf[gdf.intersects(box(*bounds))]: the rows whose geometry intersects the
\* box, in the frame's order, each with its index label.
Query_mutant(rows, bounds) ==
    LET hit(row) == Intersects(row.geometry, box(bounds[1], bounds[2], bounds[3], bounds[4]))
    IN  Reverse(SelectSeq(rows, hit))

Query(rows, bounds) ==
    LET hit(row) == Intersects(row.geometry, box(bounds[1], bounds[2], bounds[3], bounds[4]))
    IN  SelectSeq(rows, hit)

\* gpd.GeoDataFrame(cube_dict, geometry=geometries, crs=epsg): one row per
\* entry, labelled 0, 1, ...; pandas refuses columns of unequal length.
FrameBuildable(cube_dict) ==
    \A i, j \in 1..Len(cube_dict) : Len(cube_dict[i].vals) = Len(cube_dict[j].vals)

FrameRows(strings, geometries) ==
    [i \in 1..Len(geometries) |->
        [index |-> i - 1, composites_s3 |-> strings[i], geometry |-> geometries[i]]]

\* ------------------------------------------------------------ download_tile

\* Python truth value of the year argument ("if year:").
Truthy(y) ==
    CASE y.type = "NoneType" -> FALSE
      [] y.type \in {"int", "bool", "float"} -> y.val # 0
      [] OTHER -> Len(y.items) > 0

\* "Extract s3_url from s3_location".
ResolveTile_mutant(loc) ==
    CASE loc.type = "GeoDataFrame" ->
           IF Len(loc.rows) = 0
           THEN [error |-> "IndexError", s3_url |-> <<>>, warned |-> FALSE]
           ELSE [error |-> "none", s3_url |-> loc.rows[Len(loc.rows)],
                 warned |-> Len(loc.rows) > 1]
      [] loc.type \in {"Series", "str"} ->
           [error |-> "none", s3_url |-> loc.rows[1], warned |-> FALSE]
      [] OTHER ->
           [error |-> "ValueError: s3_location must be GeoDataFrame, GeoDataFrame row, or string",
            s3_url |-> <<>>, warned |-> FALSE]

ResolveTile(loc) ==
    CASE loc.type = "GeoDataFrame" ->
           IF Len(loc.rows) = 0
           THEN [error |-> "IndexError", s3_url |-> <<>>, warned |-> Len(loc.rows) > 1]
           ELSE [error |-> "none", s3_url |-> loc.rows[1], warned |-> Len(loc.rows) > 1]
      [] loc.type \in {"Series", "str"} ->
           [error |-> "none", s3_url |-> loc.rows[1], warned |-> FALSE]
      [] OTHER ->
           [error |-> "ValueError: s3_location must be GeoDataFrame, GeoDataFrame row, or string",
            s3_url |-> <<>>, warned |-> FALSE]

\* "Sanitise year input, if it is specified".
YearRange(y) ==
    IF ~Truthy(y)
    THEN [error |-> "none", year_start |-> 0, year_end |-> 0]
    ELSE IF y.type = "int"
    THEN [error |-> "none", year_start |-> y.val, year_end |-> y.val]
    ELSE IF y.type \in {"list", "tuple"}
    THEN IF Len(y.items) # 2
         THEN [error |-> "ValueError: year list must be length == 2",
               year_start |-> 0, year_end |-> 0]
         ELSE [error |-> "none", year_start |-> y.items[1], year_end |-> y.items[2]]
    ELSE [error |-> "ValueError: year must be integer or list of two integers",
          year_start |-> 0, year_end |-> 0]

\* "filter based on year, if it is specified": where(..., drop=True) on the
\* time axis.
FilterYear(times, y, ystart, yend) ==
    IF Truthy(y)
    THEN LET keep(t) == t >= ystart /\ t <= yend IN SelectSeq(times, keep)
    ELSE times

\* ------------------------------------------------------------------ inputs

Pre == <<"v","2","/","I","T","S","_","L","I","V","E","_","v","e","l">>

\* The archive's naming: ..._EPSG<c>_120m_X<x>_Y<y>.zarr
TileName(c, x, y) ==
    Pre \o <<"_","E","P","S","G">> \o c \o <<"_","1","2","0","m">>
        \o <<"_","X">> \o x \o <<"_","Y">> \o y \o <<".","z","a","r","r">>

\* The naming of the specification's example: ...X<x>_Y<y>_EPSG<c>...
SpecName(c, x, y) ==
    Pre \o <<"_","X">> \o x \o <<"_","Y">> \o y \o <<"_","E","P","S","G">> \o c
        \o <<"_","v","0","2",".","z","a","r","r">>

\* Decimal texts with the integers they denote.
Numerals ==
    { [txt |-> <<"0">>, val |-> 0],
      [txt |-> <<"1","0","0","0","0","0">>, val |-> 100000],
      [txt |-> <<"-","1","0","0","0","0","0">>, val |-> -100000],
      [txt |-> <<"1","2","3","0","0","0">>, val |-> 123000],
      [txt |-> <<"-","5","0","0","0","0">>, val |-> -50000],
      [txt |-> <<"3","4","1","3">>, val |-> 3413],
      [txt |-> <<"3","0","3","1">>, val |-> 3031] }

Txt(n) == (CHOOSE e \in Numerals : e.val = n).txt

\* Storage locations a manifest may hold.
Locations ==
    { TileName(Txt(3413), Txt(0), Txt(0)),
      TileName(Txt(3413), Txt(-100000), Txt(100000)),
      TileName(Txt(3031), Txt(0), Txt(0)),
      SpecName(Txt(3413), Txt(123000), Txt(-50000)) }

AuxColumn(key, n) == [key |-> key, vals |-> [i \in 1..n |-> <<"2","0","1","5">>]]

\* Manifests: an optional metadata column, an optional storage-location
\* column, an optional metadata column.
Manifests ==
    { p \o c \o q :
        p \in {<<>>} \cup { <<AuxColumn("id", n)>> : n \in 0..MaxAuxLen },
        c \in {<<>>} \cup { <<[key |-> "composites_s3", vals |-> v]>> :
                              v \in SeqsUpTo(Locations, MaxTiles) },
        q \in {<<>>} \cup { <<AuxColumn("date_updated", n)>> : n \in 0..MaxAuxLen } }

Regions ==
    { <<"g","r","e","e","n","l","a","n","d">>,
      <<"G","r","e","e","n","l","a","n","d">>,
      <<"a","n","t","a","r","c","t","i","c","a">>,
      <<"a","l","a","s","k","a">>,
      <<>> }

\* Bounding boxes (xmin, ymin, xmax, ymax) with xmin < xmax and ymin < ymax:
\* one inside a tile, one that only touches a tile along an edge, one across
\* the corner two tiles share, one away from every tile.
BoundsSet ==
    { <<-10000, -10000, 10000, 10000>>,
      <<50000, -50000, 150000, 50000>>,
      <<-60000, 40000, -40000, 60000>>,
      <<200000, 200000, 300000, 300000>> }

\* Tile references passed to download_tile as s3_location: a GeoDataFrame
\* (its composites_s3 column), a row of one (a Series), a string, or a value
\* of another type.
TileUrls ==
    { TileName(Txt(3413), Txt(0), Txt(0)),
      TileName(Txt(3413), Txt(-100000), Txt(100000)) }

TileRefs ==
    { [type |-> "GeoDataFrame", rows |-> v] : v \in SeqsUpTo(TileUrls, MaxRows) }
    \cup { [type |-> t, rows |-> <<u>>] : t \in {"Series", "str"}, u \in TileUrls }
    \cup { [type |-> t, rows |-> <<>>] : t \in {"NoneType", "list"} }

YearValues == {-1, 0, 2015}

\* Values passed as year: val is the number of an int, bool or float, items
\* the elements of a list or tuple, or the characters of a str (the strings
\* here are "" and "2015", each digit standing for its character).
YearInputs ==
    { [type |-> "NoneType", val |-> 0, items |-> <<>>] }
    \cup { [type |-> "int", val |-> n, items |-> <<>>] : n \in YearValues }
    \cup { [type |-> "bool", val |-> n, items |-> <<>>] : n \in {0, 1} }
    \cup { [type |-> "float", val |-> n, items |-> <<>>] : n \in {0, 2015} }
    \cup { [type |-> "str", val |-> 0, items |-> i] : i \in {<<>>, <<2, 0, 1, 5>>} }
    \cup { [type |-> t, val |-> 0, items |-> i] :
             t \in {"list", "tuple"}, i \in SeqsUpTo(YearValues, MaxYearSeq) }

\* Time axes (the year of each time step) of the remote stores.
StoreTimes == { <<2014, 2015, 2016>>, <<2015>> }

\* ------------------------------------------------------------------- state

VARIABLES pc, error,
          \* get_tiles
          region_arg, bounds, region, rgi_id, region_epsg, fetched,
          cube_json, cube_dict, geometries, epsg_list, epsg, gdf,
          \* download_tile
          s3_location, year, s3_url, warned, year_start, year_end, opened,
          store, xds

tilesVars == <<region_arg, bounds, region, rgi_id, region_epsg, fetched,
               cube_json, cube_dict, geometries, epsg_list, epsg, gdf>>

downloadVars == <<s3_location, year, s3_url, warned, year_start, year_end, opened,
                  store, xds>>

vars == <<pc, error, tilesVars, downloadVars>>

NoFrame == [columns |-> <<>>, rows |-> <<>>, crs |-> 0]

Init ==
    /\ pc = "idle"
    /\ region_arg = <<>> /\ bounds = <<0, 0, 0, 0>>
    /\ region = <<>> /\ rgi_id = "" /\ region_epsg = 0
    /\ fetched = FALSE
    /\ cube_json = <<>> /\ cube_dict = <<>>
    /\ geometries = <<>> /\ epsg_list = <<>> /\ epsg = 0
    /\ gdf = NoFrame
    /\ error = "none"
    /\ s3_location = [type |-> "NoneType", rows |-> <<>>]
    /\ year = [type |-> "NoneType", val |-> 0, items |-> <<>>]
    /\ s3_url = <<>> /\ warned = FALSE
    /\ year_start = 0 /\ year_end = 0
    /\ opened = FALSE /\ store = <<>> /\ xds = <<>>

\* A call get_tiles(bounds, region).
GetTiles ==
    /\ pc = "idle"
    /\ \E reg \in Regions, b \in BoundsSet :
          /\ region_arg' = reg
          /\ bounds' = b
    /\ pc' = "check_region"
    /\ UNCHANGED <<downloadVars, region, rgi_id, region_epsg, fetched, cube_json, cube_dict,
                   geometries, epsg_list, epsg, gdf, error>>

\* "Check region is valid".
CheckRegion ==
    /\ pc = "check_region"
    /\ region' = Lower(region_arg)
    /\ IF region' \notin DOMAIN VALID_LOCATIONS
       THEN /\ pc' = "raised"
            /\ error' = "ValueError: Region must be one of"
            /\ UNCHANGED <<downloadVars, rgi_id, region_epsg>>
       ELSE /\ pc' = "load_json"
            /\ rgi_id' = VALID_LOCATIONS[region']
            /\ region_epsg' = LOCATION_EPSG[region']
            /\ UNCHANGED error
    /\ UNCHANGED <<downloadVars, region_arg, bounds, fetched, cube_json, cube_dict,
                   geometries, epsg_list, epsg, gdf>>

\* "Load json": urlopen and json.load; the response is the environment's.
LoadJson ==
    /\ pc = "load_json"
    /\ fetched' = TRUE
    /\ \/ /\ \E m \in Manifests : cube_json' = m
          /\ pc' = "sanitize"
          /\ UNCHANGED error
       \/ /\ pc' = "raised"
          /\ error' = "URLError"
          /\ UNCHANGED cube_json
    /\ UNCHANGED <<downloadVars, region_arg, bounds, region, rgi_id, region_epsg, cube_dict,
                   geometries, epsg_list, epsg, gdf>>

\* "Remove components of json that are not of full length".
SanitizeManifest ==
    /\ pc = "sanitize"
    /\ cube_dict' = Sanitize(cube_json)
    /\ pc' = "derive"
    /\ UNCHANGED <<downloadVars, region_arg, bounds, region, rgi_id, region_epsg, fetched,
                   cube_json, geometries, epsg_list, epsg, gdf, error>>

\* "Construct geometries for geopandas dataframe".
DeriveGeometries ==
    /\ pc = "derive"
    /\ IF ColumnsNamed(cube_dict, "composites_s3") = {}
       THEN /\ pc' = "raised"
            /\ error' = "KeyError: composites_s3"
            /\ UNCHANGED <<geometries, epsg_list>>
       ELSE LET col == cube_dict[CHOOSE i \in ColumnsNamed(cube_dict, "composites_s3") : TRUE]
                res == DeriveLoop(col.vals, 1, <<>>, <<>>)
            IN  /\ geometries' = res.geometries
                /\ epsg_list' = res.epsg_list
                /\ IF res.ok
                   THEN pc' = "check_epsg" /\ UNCHANGED error
                   ELSE /\ pc' = "raised"
                        /\ error' = "ValueError: Failed to find X/Y coordinates or EPSG"
    /\ UNCHANGED <<downloadVars, region_arg, bounds, region, rgi_id, region_epsg, fetched,
                   cube_json, cube_dict, epsg, gdf>>

\* "Ensure individual list" and the comparison with the region's code.
CheckEpsg ==
    /\ pc = "check_epsg"
    /\ \E distinct \in SetToList(Range(epsg_list)) :
          LET res == EpsgOutcome(distinct, region_epsg)
          IN  /\ epsg_list' = distinct
              /\ epsg' = res.epsg
              /\ error' = res.error
              /\ pc' = IF res.error = "none" THEN "build" ELSE "raised"
    /\ UNCHANGED <<downloadVars, region_arg, bounds, region, rgi_id, region_epsg, fetched,
                   cube_json, cube_dict, geometries, gdf>>

\* "Create geopandas dataframe", the query, and the return.
BuildAndQuery ==
    /\ pc = "build"
    /\ IF ~FrameBuildable(cube_dict)
       THEN /\ pc' = "raised"
            /\ error' = "ValueError: All arrays must be of the same length"
            /\ UNCHANGED gdf
       ELSE LET col == cube_dict[CHOOSE i \in ColumnsNamed(cube_dict, "composites_s3") : TRUE]
            IN  /\ gdf' = [columns |-> [i \in 1..Len(cube_dict) |-> cube_dict[i].key],
                           rows |-> Query(FrameRows(col.vals, geometries), bounds),
                           crs |-> epsg]
                /\ pc' = "returned"
                /\ UNCHANGED error
    /\ UNCHANGED <<downloadVars, region_arg, bounds, region, rgi_id, region_epsg, fetched,
                   cube_json, cube_dict, geometries, epsg_list, epsg>>

\* A call download_tile(s3_location, year=year).  The dataset is held as
\* its time axis: the selection of variables and the clip to bounds leave the
\* time axis as it is.
DownloadTile ==
    /\ pc = "idle"
    /\ \E loc \in TileRefs, y \in YearInputs :
          /\ s3_location' = loc
          /\ year' = y
    /\ pc' = "resolve"
    /\ UNCHANGED <<tilesVars, error, s3_url, warned, year_start, year_end, opened,
                   store, xds>>

\* "Extract s3_url from s3_location".
ResolveLocation ==
    /\ pc = "resolve"
    /\ LET res == ResolveTile(s3_location)
       IN  /\ warned' = res.warned
           /\ s3_url' = res.s3_url
           /\ error' = res.error
           /\ pc' = IF res.error = "none" THEN "sanitise_year" ELSE "dl_raised"
    /\ UNCHANGED <<tilesVars, s3_location, year, year_start, year_end, opened,
                   store, xds>>

\* "Sanitise year input, if it is specified".
SanitiseYear ==
    /\ pc = "sanitise_year"
    /\ LET res == YearRange(year)
       IN  /\ year_start' = res.year_start
           /\ year_end' = res.year_end
           /\ error' = res.error
           /\ pc' = IF res.error = "none" THEN "open" ELSE "dl_raised"
    /\ UNCHANGED <<tilesVars, s3_location, year, s3_url, warned, opened, store, xds>>

\* "Open dataset": the store's time axis is the environment's.
OpenDataset ==
    /\ pc = "open"
    /\ opened' = TRUE
    /\ \/ /\ \E t \in StoreTimes : store' = t /\ xds' = t
          /\ pc' = "filter"
          /\ UNCHANGED error
       \/ /\ pc' = "dl_raised"
          /\ error' = "OSError"
          /\ UNCHANGED <<xds, store>>
    /\ UNCHANGED <<tilesVars, s3_location, year, s3_url, warned, year_start, year_end>>

\* "filter based on year, if it is specified", and the return.
FilterAndReturn ==
    /\ pc = "filter"
    /\ xds' = FilterYear(xds, year, year_start, year_end)
    /\ pc' = "dl_returned"
    /\ UNCHANGED <<tilesVars, error, s3_location, year, s3_url, warned,
                   year_start, year_end, opened, store>>

Next ==
    \/ GetTiles
    \/ CheckRegion
    \/ LoadJson
    \/ SanitizeManifest
    \/ DeriveGeometries
    \/ CheckEpsg
    \/ BuildAndQuery
    \/ DownloadTile
    \/ ResolveLocation
    \/ SanitiseYear
    \/ OpenDataset
    \/ FilterAndReturn

Spec == Init /\ [][Next]_vars

\* ------------------------------------------------------ terms of the claims

\* Storage locations by naming, with the numbers each is written from.
ArchiveForms ==
    { [string |-> TileName(c.txt, x.txt, y.txt), x |-> x.val, y |-> y.val, c |-> c.val] :
        c \in { e \in Numerals : e.val \in {3413, 3031} },
        x \in { e \in Numerals : e.val \notin {3413, 3031} },
        y \in { e \in Numerals : e.val \notin {3413, 3031} } }

SpecForms ==
    { [string |-> SpecName(c.txt, x.txt, y.txt), x |-> x.val, y |-> y.val, c |-> c.val] :
        c \in { e \in Numerals : e.val \in {3413, 3031} },
        x \in { e \in Numerals : e.val \notin {3413, 3031} },
        y \in { e \in Numerals : e.val \notin {3413, 3031} } }

\* The 100 km square centred on (x, y).
Square(x, y) == [minx |-> x - 50000, miny |-> y - 50000, maxx |-> x + 50000, maxy |-> y + 50000]

\* The numbers an archive-named location is written from.
Written(string) == CHOOSE f \in ArchiveForms : f.string = string

\* The storage-location column of a manifest or of the sanitized columns
\* (<<>> when there is none).
StorageColumn(cols) ==
    IF ColumnsNamed(cols, "composites_s3") = {} THEN <<>>
    ELSE cols[CHOOSE i \in ColumnsNamed(cols, "composites_s3") : TRUE].vals

\* The region's expected code, as the specification enumerates it.
ExpectedCode(reg) == IF reg = <<"g","r","e","e","n","l","a","n","d">> THEN 3413 ELSE 3031

EnumeratedRegions ==
    { <<"g","r","e","e","n","l","a","n","d">>, <<"a","n","t","a","r","c","t","i","c","a">> }

RegionError == "ValueError: Region must be one of"
ParseError == "ValueError: Failed to find X/Y coordinates or EPSG"
MixedError == "ValueError: All cubes must have same EPSG"
MismatchError == "ValueError: Reported EPSG code does not match"
LengthError == "ValueError: All arrays must be of the same length"
TileReferenceError ==
    "ValueError: s3_location must be GeoDataFrame, GeoDataFrame row, or string"
YearErrors ==
    { "ValueError: year list must be length == 2",
      "ValueError: year must be integer or list of two integers" }

\* A call of get_tiles that has ended.
TilesEnded == pc \in {"returned", "raised"}

\* A call of get_tiles that is past its region check.
PastRegionCheck == pc \in {"load_json", "sanitize", "derive", "check_epsg", "build",
                           "returned", "raised"}

\* A call of download_tile that is past the resolution of its tile reference.
PastResolve == pc \in {"sanitise_year", "open", "filter", "dl_returned", "dl_raised"}

\* ------------------------------------------------------------------ claims

\* C1: the query step returns exactly the tiles whose 100 km square shares a
\* point with the bounding box (a boundary point included), in catalog order:
\* the returned index labels rise strictly, are exactly the labels of the
\* intersecting tiles, and each returned row is that tile.
C1_QueryExact ==
    pc = "returned" =>
        LET strings == StorageColumn(cube_json)
            sq(i) == Square(Written(strings[i]).x, Written(strings[i]).y)
            meets(i) == /\ sq(i).minx <= bounds[3] /\ bounds[1] <= sq(i).maxx
                        /\ sq(i).miny <= bounds[4] /\ bounds[2] <= sq(i).maxy
            rows == gdf.rows
        IN  /\ { rows[k].index + 1 : k \in 1..Len(rows) } = { i \in 1..Len(strings) : meets(i) }
            /\ \A k \in 1..(Len(rows) - 1) : rows[k].index < rows[k + 1].index
            /\ \A k \in 1..Len(rows) :
                  /\ rows[k].composites_s3 = strings[rows[k].index + 1]
                  /\ rows[k].geometry = sq(rows[k].index + 1)

\* A returned catalog that holds a tile which only touches the box and leaves
\* another tile out.
C1_Witness ==
    /\ pc = "returned"
    /\ bounds = <<50000, -50000, 150000, 50000>>
    /\ Len(gdf.rows) = 1
    /\ Len(geometries) = 2

\* C2: a returned catalog carries the region's expected code on every tile
\* (greenland 3413, antarctica 3031), and a build whose tiles decode to one
\* code other than the expected one fails with the mismatch error and returns
\* nothing.
C2_CatalogCode ==
    /\ pc = "returned" =>
          /\ gdf.crs = ExpectedCode(Lower(region_arg))
          /\ \A k \in 1..Len(gdf.rows) :
                Written(gdf.rows[k].composites_s3).c = ExpectedCode(Lower(region_arg))
    /\ \A c \in {3413, 3031} \ {ExpectedCode(Lower(region_arg))} :
          ( /\ TilesEnded
            /\ StorageColumn(cube_dict) # <<>>
            /\ \A i \in 1..Len(StorageColumn(cube_dict)) :
                  /\ \E f \in ArchiveForms : f.string = StorageColumn(cube_dict)[i]
                  /\ Written(StorageColumn(cube_dict)[i]).c = c )
          => (pc = "raised" /\ error = MismatchError /\ gdf = NoFrame)

\* A catalog returned for antarctica with a tile in it.
C2_Witness ==
    /\ pc = "returned"
    /\ region = <<"a","n","t","a","r","c","t","i","c","a">>
    /\ Len(gdf.rows) >= 1

\* C3 as stated: whenever at least two decoded tiles carry different codes,
\* the build ends with the mixed-reference-system error.
C3_Original ==
    (TilesEnded /\ Cardinality(Range(epsg_list)) >= 2)
        => (pc = "raised" /\ error = MixedError)

\* C3 amended: when every storage location of the manifest decodes and at
\* least two decode to different codes, the build ends with the
\* mixed-reference-system error and returns no catalog, also when one of the
\* codes is the region's expected code.
C3_MixedFirst ==
    (/\ TilesEnded
     /\ error # ParseError
     /\ Cardinality(Range(epsg_list)) >= 2)
        => (pc = "raised" /\ error = MixedError /\ gdf = NoFrame)

\* A build refused as mixed although one of its codes is the expected one.
C3_Witness ==
    /\ pc = "raised"
    /\ error = MixedError
    /\ region_epsg \in Range(epsg_list)

\* C4: sanitization retains exactly the columns as long as the first column
\* of the manifest, and no build of a manifest that holds a storage-location
\* column fails for the column lengths alone.
C4_Sanitization ==
    /\ pc \in {"derive", "check_epsg", "build", "returned"} =>
          LET full(col) == Len(col.vals) = Len(cube_json[1].vals)
          IN  cube_dict = SelectSeq(cube_json, full)
    /\ (pc = "raised" /\ error \in {"KeyError: composites_s3", LengthError})
          => ColumnsNamed(cube_json, "composites_s3") = {}

\* C5 as stated: a location named ...X<x>_Y<y>_EPSG<c>... derives the square
\* centred on (x, y) and the code c.
C5_Original ==
    pc \in {"check_epsg", "raised"} /\ error \in {"none", ParseError} =>
        LET strings == StorageColumn(cube_dict)
            n == Len(geometries)
        IN  \A f \in SpecForms :
              /\ \A i \in 1..n : strings[i] = f.string =>
                    geometries[i] = Square(f.x, f.y) /\ epsg_list[i] = f.c
              /\ (error = ParseError) => strings[n + 1] # f.string

\* C5 amended: a location of the archive's naming ..._EPSG<c>_..._X<x>_Y<y>.zarr
\* (the EPSG and X tokens ended by an underscore, the Y token ended by the
\* .zarr suffix) derives the square [x-50000, x+50000] by [y-50000, y+50000]
\* and the code c, and is never the entry the derivation fails on.
C5_ArchiveNaming ==
    pc \in {"check_epsg", "raised"} /\ error \in {"none", ParseError} =>
        LET strings == StorageColumn(cube_dict)
            n == Len(geometries)
        IN  \A f \in ArchiveForms :
              /\ \A i \in 1..n : strings[i] = f.string =>
                    geometries[i] = Square(f.x, f.y) /\ epsg_list[i] = f.c
              /\ (error = ParseError) => strings[n + 1] # f.string

\* A derivation that decoded a tile with a negative X and a positive Y.
C5_Witness ==
    /\ pc = "check_epsg"
    /\ \E i \in 1..Len(geometries) :
          /\ geometries[i] = Square(-100000, 100000)
          /\ epsg_list[i] = 3413

\* C6: a supplied year that is neither a single integer nor a sequence of
\* exactly two elements makes download_tile fail with the year error before
\* the store is opened.
C6_YearValidation ==
    (/\ pc \in {"open", "filter", "dl_returned", "dl_raised"}
     /\ error # "IndexError" /\ error # TileReferenceError
     /\ year.type # "NoneType"
     /\ ~(year.type = "int" \/ (year.type \in {"list", "tuple"} /\ Len(year.items) = 2)))
        => (pc = "dl_raised" /\ error \in YearErrors /\ ~opened)

\* C7: download_tile with year = Y returns what it returns with
\* year = (Y, Y): the time steps of the store whose year is Y.
C7_SingleYearIsPair ==
    (pc = "dl_returned" /\ year.type = "int") =>
        LET pair == [type |-> "tuple", val |-> 0, items |-> <<year.val, year.val>>]
            range == YearRange(pair)
        IN  /\ range.error = "none"
            /\ xds = FilterYear(store, pair, range.year_start, range.year_end)

\* C8 as stated: the region check passes only for a region that is a member
\* of {greenland, antarctica}; any other fails with the region error before
\* the manifest is retrieved.
C8_Original ==
    PastRegionCheck =>
        IF region_arg \in EnumeratedRegions
        THEN error # RegionError
        ELSE pc = "raised" /\ error = RegionError /\ ~fetched

\* C8 amended: the region check passes exactly for a region whose lower-case
\* form is a member of {greenland, antarctica}; any other fails with the
\* region error before the manifest is retrieved.
C8_RegionCheck ==
    PastRegionCheck =>
        IF \E e \in EnumeratedRegions :
              /\ Len(e) = Len(region_arg)
              /\ \A i \in 1..Len(e) :
                    \/ region_arg[i] = e[i]
                    \/ region_arg[i] \in DOMAIN UpperToLower /\ UpperToLower[region_arg[i]] = e[i]
        THEN error # RegionError /\ (pc # "load_json" => fetched)
        ELSE pc = "raised" /\ error = RegionError /\ ~fetched

\* A call refused for its region, with no retrieval.
C8_Witness ==
    /\ pc = "raised"
    /\ error = RegionError
    /\ region_arg = <<"a","l","a","s","k","a">>
    /\ ~fetched

\* C9: filtering the returned catalog by the same box again yields the
\* returned catalog, same rows in the same order.
C9_QueryIdempotent ==
    pc = "returned" => Query(gdf.rows, bounds) = gdf.rows

\* A returned catalog of two tiles.
C9_Witness ==
    /\ pc = "returned"
    /\ Len(gdf.rows) = 2
    /\ Len(geometries) = 3

\* C10 as stated: every catalog passed as the tile reference, whatever its
\* number of tiles, resolves to its first tile's location, with a warning
\* exactly when it holds more than one tile.
C10_Original ==
    (PastResolve /\ s3_location.type = "GeoDataFrame") =>
        /\ error # "IndexError" /\ error # TileReferenceError
        /\ Len(s3_location.rows) >= 1
        /\ s3_url = s3_location.rows[1]
        /\ warned = (Len(s3_location.rows) > 1)

\* C10 amended: a catalog of at least one tile resolves to its first tile's
\* location, with a warning exactly when it holds more than one tile; a
\* catalog of no tile fails with an index error and no warning; a row
\* resolves to its location and a string to itself, without a warning; any
\* other shape fails with the tile-reference error; no failed resolution
\* opens the store.
C10_TileReference ==
    PastResolve =>
        CASE s3_location.type = "GeoDataFrame" /\ Len(s3_location.rows) >= 1 ->
               /\ error # "IndexError" /\ error # TileReferenceError
               /\ s3_url = s3_location.rows[1]
               /\ warned = (Len(s3_location.rows) > 1)
          [] s3_location.type = "GeoDataFrame" /\ Len(s3_location.rows) = 0 ->
               pc = "dl_raised" /\ error = "IndexError" /\ ~warned /\ ~opened
          [] s3_location.type \in {"Series", "str"} ->
               /\ error # "IndexError" /\ error # TileReferenceError
               /\ s3_url = s3_location.rows[1]
               /\ ~warned
          [] OTHER ->
               pc = "dl_raised" /\ error = TileReferenceError /\ ~warned /\ ~opened

\* A catalog of two different tiles resolved to the first, with the warning.
C10_Witness ==
    /\ pc = "dl_returned"
    /\ s3_location.type = "GeoDataFrame"
    /\ Len(s3_location.rows) = 2
    /\ s3_location.rows[1] # s3_location.rows[2]
    /\ s3_url = s3_location.rows[1]
    /\ warned

====
